---- MODULE Spec2Model ----
(***************************************************************************)
(* A model of the gugto data-collection scripts: notsold.py, common.py,    *)
(* population_report.py, real_estate_report.py and monthly_price_index.py. *)
(*                                                                         *)
(* Text is modelled as a sequence of characters.  Korean syllables are     *)
(* written romanised, one syllable per character: "충청남도" is            *)
(* <<"chung","cheong","nam","do">>.  Digit strings ("202101", a 10-digit   *)
(* region code) are sequences of the digits 0..9.                          *)
(*                                                                         *)
(* A list of records fetched from a server is modelled as a sequence of    *)
(* blocks, one block per page that was appended: a block names the         *)
(* sub-query and page it came from, how many elements it holds and whether *)
(* the elements are records or field names.                                *)
(***************************************************************************)
EXTENDS Integers, Sequences, FiniteSets, TLC

VARIABLES
    script,       \* which program this run executes
    api_key,      \* the endpoint's API-key environment variable
    region_name,  \* --region-name
    lawd_cd,      \* --lawd-cd (real_estate_report only)
    start,        \* --start (YYYYMM)
    end,          \* --end (YYYYMM)
    start_year,   \* --start-year (real_estate_report only)
    today,        \* <<year, month>> of datetime.today()
    pc,           \* position of the program
    resolved,     \* what the region resolver produced
    queries,      \* the sub-queries the program will issue, in order
    sub,          \* index of the sub-query being fetched
    page,         \* page number of the next request
    items,        \* accumulator of the running fetch
    tables,       \* results of the fetch calls that have returned
    requests,     \* every HTTP GET issued so far, in order
    resps,        \* the answer to each of them, in the same order
    lookups,      \* number of reference-table lookups performed
    workbook,     \* the output workbook
    exit,         \* how the process ended, once it has
    fn,           \* unit call: the function applied
    arg,          \* unit call: its argument
    ret           \* unit call: what it returned or raised

vars == <<script, api_key, region_name, lawd_cd, start, end, start_year, today,
          pc, resolved, queries, sub, page, items, tables, requests, resps, lookups,
          workbook, exit, fn, arg, ret>>

runvars == <<script, api_key, region_name, lawd_cd, start, end, start_year, today,
             pc, resolved, queries, sub, page, items, tables, requests, resps, lookups,
             workbook, exit>>

unitvars == <<fn, arg, ret>>

(***************************************************************************)
(* Bounds of the model.                                                    *)
(***************************************************************************)
\* The server sends at most this many non-empty pages in one run.
MaxDataPages == 2
\* At most this many GETs of one run fail.
MaxFailures == 1
\* Number of fields of a record that arrives as a bare object.
DictFields == 2
\* Years the unit calls of split_to_quarters range over: FirstYear..LastYear.
FirstYear == 2020
LastYear == 2022

(***************************************************************************)
(* Python values and text.                                                 *)
(***************************************************************************)
None == <<"None">>
SP == " "

RECURSIVE Digits(_)
\* str(n) for n >= 0
Digits(n) == IF n < 10 THEN <<n>> ELSE Append(Digits(n \div 10), n % 10)

RECURSIVE ToInt(_)
\* int(s) for a digit string s
ToInt(s) == IF s = <<>> THEN 0 ELSE ToInt(SubSeq(s, 1, Len(s) - 1)) * 10 + s[Len(s)]

\* s[:n]
Prefix(s, n) == SubSeq(s, 1, IF Len(s) < n THEN Len(s) ELSE n)

\* s[a:b] (0-based, end exclusive)
Slice(s, a, b) == SubSeq(s, a + 1, IF Len(s) < b THEN Len(s) ELSE b)

\* s.startswith(k)
StartsWith(s, k) == Len(k) <= Len(s) /\ SubSeq(s, 1, Len(k)) = k

RECURSIVE split_loop(_, _, _)
split_loop(s, cur, out) ==
    IF s = <<>> THEN (IF cur = <<>> THEN out ELSE Append(out, cur))
    ELSE IF Head(s) = SP
         THEN split_loop(Tail(s), <<>>, IF cur = <<>> THEN out ELSE Append(out, cur))
         ELSE split_loop(Tail(s), Append(cur, Head(s)), out)

\* str.split(): the tokens between runs of whitespace
split(s) == split_loop(s, <<>>, <<>>)

\* f"{a} {b}"
Join2(a, b) == a \o <<SP>> \o b

\* f"{a} {b} {c}"
Join3(a, b, c) == a \o <<SP>> \o b \o <<SP>> \o c

\* What a call produced: a value, or the exception it raised.
Returned(v) == [exc |-> "none", val |-> v]
Raised(e) == [exc |-> e, val |-> None]

(***************************************************************************)
(* population_report.split_to_quarters                                     *)
(***************************************************************************)
\* to_ym(s) = int(s[:4]), int(s[4:6])
to_ym(s) == <<ToInt(Prefix(s, 4)), ToInt(Slice(s, 4, 6))>>

\* to_str(y, m) = f"{y}{m:02d}"
to_str(y, m) == Digits(y) \o (IF m < 10 THEN <<0>> \o Digits(m) ELSE Digits(m))

\* Python's tuple order on (year, month) pairs
TupleLE(a, b) == a[1] < b[1] \/ (a[1] = b[1] /\ a[2] <= b[2])
TupleGT(a, b) == ~TupleLE(a, b)

\* A bug the window arithmetic could have: a window of four months.
window_end_wide(cy, cm, ye, me) ==
    LET total == cy * 12 + (cm - 1) + 3
        e == <<total \div 12, (total % 12) + 1>>
    IN  IF TupleGT(e, <<ye, me>>) THEN <<ye, me>> ELSE e

\* lines 136-139: the last month of the window that starts at (cy, cm)
window_end(cy, cm, ye, me) ==
    LET total == cy * 12 + (cm - 1) + 2
        e == <<total \div 12, (total % 12) + 1>>
    IN  IF TupleGT(e, <<ye, me>>) THEN <<ye, me>> ELSE e

\* lines 141-142: the month after (ey, em)
window_next(ey, em) ==
    LET nxt == ey * 12 + (em - 1) + 1
    IN  <<nxt \div 12, (nxt % 12) + 1>>

RECURSIVE quarters_loop(_, _, _, _, _)
quarters_loop(cy, cm, ye, me, out) ==
    IF ~TupleLE(<<cy, cm>>, <<ye, me>>) THEN out
    ELSE LET e == window_end(cy, cm, ye, me)
             n == window_next(e[1], e[2])
         IN  quarters_loop(n[1], n[2], ye, me,
                           Append(out, <<to_str(cy, cm), to_str(e[1], e[2])>>))

split_to_quarters(s, e) ==
    LET a == to_ym(s)
        b == to_ym(e)
    IN  quarters_loop(a[1], a[2], b[1], b[2], <<>>)

(***************************************************************************)
(* Names.  One romanised syllable per character.                           *)
(***************************************************************************)
Seoul == <<"seo", "ul">>
Busan == <<"bu", "san">>
Daegu == <<"dae", "gu">>
Incheon == <<"in", "cheon">>
Gwangju == <<"gwang", "ju">>
Daejeon == <<"dae", "jeon">>
Ulsan == <<"ul", "san">>
Sejong == <<"se", "jong">>
Jeju == <<"je", "ju">>
Gyeonggi == <<"gyeong", "gi">>
Gangwon == <<"gang", "won">>
Chungbuk == <<"chung", "buk">>
Chungnam == <<"chung", "nam">>
Jeonbuk == <<"jeon", "buk">>
Jeonnam == <<"jeon", "nam">>
Gyeongbuk == <<"gyeong", "buk">>
Gyeongnam == <<"gyeong", "nam">>
\* "...특별시", "...광역시", "...특별자치시", "...특별자치도", "...시", "...도"
Teukbyeolsi(x) == x \o <<"teuk", "byeol", "si">>
Gwangyeoksi(x) == x \o <<"gwang", "yeok", "si">>
TeukbyeolJachisi(x) == x \o <<"teuk", "byeol", "ja", "chi", "si">>
TeukbyeolJachido(x) == x \o <<"teuk", "byeol", "ja", "chi", "do">>
Si(x) == x \o <<"si">>
Do(x) == x \o <<"do">>
ChungcheongbukDo == <<"chung", "cheong", "buk", "do">>
ChungcheongnamDo == <<"chung", "cheong", "nam", "do">>
JeollabukDo == <<"jeon", "ra", "buk", "do">>
JeollanamDo == <<"jeon", "ra", "nam", "do">>
GyeongsangbukDo == <<"gyeong", "sang", "buk", "do">>
GyeongsangnamDo == <<"gyeong", "sang", "nam", "do">>
CheonanSi == <<"cheon", "an", "si">>
AsanSi == <<"a", "san", "si">>
DongnamGu == <<"dong", "nam", "gu">>
Jeonguk == <<"jeon", "guk">>
Sudogwon == <<"su", "do", "gwon">>
Jibanggwon == <<"ji", "bang", "gwon">>
\* a token that names nothing
Nowhere == <<"x">>

\* A dict is a sequence of <<key, value>> pairs in insertion order.
DictHas(d, k) == \E i \in 1..Len(d) : d[i][1] = k
DictGet(d, k) == d[CHOOSE i \in 1..Len(d) : d[i][1] = k][2]

(***************************************************************************)
(* The reference tables (code_raw.csv, code_forprice.csv): sample data.    *)
(***************************************************************************)
NaN == <<"NaN">>

\* code_raw.csv: 시도명, 시군구명, 읍면동명, 법정동코드
csv_df ==
    << [sido |-> ChungcheongnamDo, sigungu |-> NaN, emd |-> NaN,
        code |-> <<4, 4, 0, 0, 0, 0, 0, 0, 0, 0>>],
       [sido |-> ChungcheongnamDo, sigungu |-> CheonanSi, emd |-> NaN,
        code |-> <<4, 4, 1, 3, 0, 0, 0, 0, 0, 0>>],
       [sido |-> ChungcheongnamDo, sigungu |-> CheonanSi \o DongnamGu, emd |-> NaN,
        code |-> <<4, 4, 1, 3, 1, 0, 0, 0, 0, 0>>],
       [sido |-> ChungcheongnamDo, sigungu |-> CheonanSi, emd |-> DongnamGu,
        code |-> <<4, 4, 1, 3, 1, 1, 0, 1, 0, 0>>] >>

\* code_forprice.csv: 분류명, 지역코드
code_df ==
    << [label |-> Jeonguk, code |-> <<5, 0, 0, 0, 1>>],
       [label |-> Sudogwon, code |-> <<5, 0, 0, 0, 2>>],
       [label |-> Jibanggwon, code |-> <<5, 0, 0, 0, 3>>],
       [label |-> Seoul, code |-> <<5, 0, 0, 0, 7>>],
       [label |-> Chungnam, code |-> <<5, 0, 0, 7, 0>>],
       [label |-> Join3(Chungnam, CheonanSi, DongnamGu), code |-> <<5, 0, 0, 7, 1>>] >>

(***************************************************************************)
(* Region resolvers.                                                       *)
(***************************************************************************)
\* A bug split_region_name could have: taking only the first token.
split_region_name_first(name) ==
    LET parts == split(name)
    IN  IF Len(parts) >= 1 THEN Returned(<<parts[1], None, None>>)
        ELSE Raised("ValueError")

\* common.split_region_name
split_region_name(name) ==
    LET parts == split(name)
    IN  IF Len(parts) = 1 THEN Returned(<<parts[1], None, None>>)
        ELSE IF Len(parts) = 2 THEN Returned(<<parts[1], parts[2], None>>)
        ELSE IF Len(parts) >= 3 THEN Returned(<<parts[1], parts[2], parts[3]>>)
        ELSE Raised("ValueError")

\* population_report.get_admmCd
get_admmCd(name) ==
    LET parts == split(name)
    IN  IF Len(parts) = 0 THEN Raised("IndexError")   \* sido = parts[0]
        ELSE IF Len(parts) > 3 THEN Raised("ValueError")
        ELSE LET sido == parts[1]
                 hit(r) ==
                     IF Len(parts) = 1
                     THEN r.sido = sido /\ r.sigungu = NaN /\ r.emd = NaN
                     ELSE IF Len(parts) = 2
                     THEN r.sido = sido /\ r.sigungu = parts[2] /\ r.emd = NaN
                     ELSE r.sido = sido /\ r.sigungu = parts[2] /\ r.emd = parts[3]
                 rows == SelectSeq(csv_df, hit)
             IN  IF rows = <<>> THEN Raised("LookupError")
                 ELSE IF Len(rows[1].code) # 10 THEN Raised("ValueError")
                 ELSE Returned(rows[1].code)

\* real_estate_report.get_region_code
get_region_code(name) ==
    LET parts == split(name)
    IN  IF Len(parts) = 0 THEN Raised("IndexError")   \* sido = parts[0]
        ELSE IF Len(parts) \notin {2, 3} THEN Raised("ValueError")
        ELSE LET sido == parts[1]
                 hit(r) ==
                     IF Len(parts) = 2
                     THEN r.sido = sido /\ r.sigungu = parts[2] /\ r.emd = NaN
                     ELSE r.sido = sido /\ r.sigungu = parts[2] \o parts[3]
                 rows == SelectSeq(csv_df, hit)
             IN  IF rows = <<>> THEN Raised("LookupError")
                 ELSE Returned(Prefix(rows[1].code, 5))

\* monthly_price_index.sido_map
sido_map ==
    << <<Teukbyeolsi(Seoul), Seoul>>, <<Si(Seoul), Seoul>>, <<Seoul, Seoul>>,
       <<Gwangyeoksi(Busan), Busan>>, <<Si(Busan), Busan>>, <<Busan, Busan>>,
       <<Gwangyeoksi(Daegu), Daegu>>, <<Si(Daegu), Daegu>>, <<Daegu, Daegu>>,
       <<Gwangyeoksi(Incheon), Incheon>>, <<Si(Incheon), Incheon>>, <<Incheon, Incheon>>,
       <<Gwangyeoksi(Gwangju), Gwangju>>, <<Si(Gwangju), Gwangju>>,
       <<Gwangyeoksi(Daejeon), Daejeon>>, <<Si(Daejeon), Daejeon>>,
       <<Gwangyeoksi(Ulsan), Ulsan>>, <<Si(Ulsan), Ulsan>>,
       <<TeukbyeolJachisi(Sejong), Sejong>>, <<Si(Sejong), Sejong>>, <<Sejong, Sejong>>,
       <<Do(Gyeonggi), Gyeonggi>>, <<Gyeonggi, Gyeonggi>>,
       <<Do(Gangwon), Gangwon>>, <<Gangwon, Gangwon>>,
       <<ChungcheongbukDo, Chungbuk>>, <<Chungbuk, Chungbuk>>,
       <<ChungcheongnamDo, Chungnam>>, <<Chungnam, Chungnam>>,
       <<JeollabukDo, Jeonbuk>>, <<Jeonbuk, Jeonbuk>>,
       <<JeollanamDo, Jeonnam>>, <<Jeonnam, Jeonnam>>,
       <<GyeongsangbukDo, Gyeongbuk>>, <<Gyeongbuk, Gyeongbuk>>,
       <<GyeongsangnamDo, Gyeongnam>>, <<Gyeongnam, Gyeongnam>>,
       <<TeukbyeolJachido(Jeju), Jeju>>, <<Do(Jeju), Jeju>>, <<Jeju, Jeju>> >>

\* monthly_price_index.map_sido
map_sido(full_name) ==
    IF DictHas(sido_map, full_name) THEN Returned(DictGet(sido_map, full_name))
    ELSE IF \E i \in 1..Len(sido_map) : StartsWith(full_name, sido_map[i][1])
    THEN LET i == CHOOSE j \in 1..Len(sido_map) :
                      /\ StartsWith(full_name, sido_map[j][1])
                      /\ \A k \in 1..(j - 1) : ~StartsWith(full_name, sido_map[k][1])
         IN  Returned(sido_map[i][2])
    ELSE Raised("ValueError")

\* A bug the insertion could have: the index taken as 1-based.
Insert_one_based(s, i, x) == SubSeq(s, 1, i - 1) \o <<x>> \o SubSeq(s, i, Len(s))

\* list.insert(i, x) with a 0-based index i <= len
Insert(s, i, x) == SubSeq(s, 1, i) \o <<x>> \o SubSeq(s, i + 1, Len(s))

SeqHas(s, x) == \E i \in 1..Len(s) : s[i] = x

\* monthly_price_index.get_region_labels
get_region_labels(name) ==
    LET parts == split(name)
    IN  IF Len(parts) = 0 THEN Raised("IndexError")   \* sido_full = parts[0]
        ELSE LET m == map_sido(parts[1])
             IN  IF m.exc # "none" THEN m
                 ELSE LET sido == m.val
                          l4 == <<Jeonguk, Sudogwon, Jibanggwon, sido>>
                          l5 == IF Len(parts) >= 2
                                THEN Append(l4, Join2(sido, parts[2])) ELSE l4
                          l6 == IF Len(parts) >= 3
                                THEN Append(l5, Join3(sido, parts[2], parts[3])) ELSE l5
                      IN  Returned(IF ~SeqHas(l6, Seoul) THEN Insert(l6, 3, Seoul) ELSE l6)

\* A bug get_cls_id could have: an unknown label yields an empty code.
get_cls_id_lenient(label) ==
    LET rows == SelectSeq(code_df, LAMBDA r : r.label = label)
    IN  IF rows = <<>> THEN Returned(<<>>) ELSE Returned(rows[1].code)

\* monthly_price_index.get_cls_id
get_cls_id(label) ==
    LET rows == SelectSeq(code_df, LAMBDA r : r.label = label)
    IN  IF rows = <<>> THEN Raised("LookupError") ELSE Returned(rows[1].code)

\* notsold.PROVINCE_KEY_MAP
PROVINCE_KEY_MAP ==
    << <<Teukbyeolsi(Seoul), Seoul>>, <<Seoul, Seoul>>,
       <<Gwangyeoksi(Busan), Busan>>, <<Busan, Busan>>,
       <<Gwangyeoksi(Daegu), Daegu>>, <<Daegu, Daegu>>,
       <<Gwangyeoksi(Incheon), Incheon>>, <<Incheon, Incheon>>,
       <<Gwangyeoksi(Gwangju), Gwangju>>, <<Gwangju, Gwangju>>,
       <<Gwangyeoksi(Daejeon), Daejeon>>, <<Daejeon, Daejeon>>,
       <<Gwangyeoksi(Ulsan), Ulsan>>, <<Ulsan, Ulsan>>,
       <<TeukbyeolJachisi(Sejong), Sejong>>, <<Sejong, Sejong>>,
       <<TeukbyeolJachido(Jeju), Jeju>>, <<Jeju, Jeju>>,
       <<Do(Gyeonggi), Gyeonggi>>, <<Do(Gangwon), Gangwon>>,
       <<ChungcheongbukDo, Chungbuk>>, <<ChungcheongnamDo, Chungnam>>,
       <<JeollabukDo, Jeonbuk>>, <<JeollanamDo, Jeonnam>>,
       <<GyeongsangbukDo, Gyeongbuk>>, <<GyeongsangnamDo, Gyeongnam>> >>

\* notsold.parse_region_name
parse_region_name(name) ==
    LET parts == split(name)   \* strip() changes nothing split() keeps
    IN  IF Len(parts) = 0 THEN Raised("IndexError")   \* prov_input = parts[0]
        ELSE Returned(<< IF DictHas(PROVINCE_KEY_MAP, parts[1])
                         THEN DictGet(PROVINCE_KEY_MAP, parts[1]) ELSE parts[1],
                         IF Len(parts) >= 2 THEN parts[2] ELSE None,
                         IF Len(parts) >= 3 THEN parts[3] ELSE None >>)

(***************************************************************************)
(* Unit calls: one pure function applied to one argument.                  *)
(***************************************************************************)
\* Region names of the unit calls hold at most this many tokens.
MaxTokens == 4

Pending == [exc |-> "pending", val |-> None]
Idle == <<"idle">>

RECURSIVE JoinTokens(_)
JoinTokens(ts) ==
    IF ts = <<>> THEN <<>>
    ELSE IF Len(ts) = 1 THEN ts[1]
    ELSE ts[1] \o <<SP>> \o JoinTokens(Tail(ts))

UnitTokens == {ChungcheongnamDo, CheonanSi, DongnamGu, Nowhere}

UnitNames ==
    {JoinTokens(ts) : ts \in UNION {[1..n -> UnitTokens] : n \in 0..MaxTokens}}
    \cup {<<SP>>, <<SP>> \o ChungcheongnamDo \o <<SP, SP>> \o CheonanSi \o <<SP>>}

\* "YYYYMM"
YM(y, m) == Digits(y) \o <<m \div 10, m % 10>>

UnitMonths == {YM(y, m) : y \in FirstYear..LastYear, m \in 1..12}

RegionFns == {"split_region_name", "get_admmCd", "get_region_code"}

\* Region names for the label builder: Seoul and other provinces, in full
\* and in short, with up to MaxTokens - 1 tokens after the province.
LabelProvinces == {Teukbyeolsi(Seoul), Seoul, ChungcheongnamDo, Chungnam,
                   Gwangyeoksi(Gwangju), Nowhere}
LabelNames ==
    {JoinTokens(<<p>> \o ts) :
        p \in LabelProvinces,
        ts \in UNION {[1..n -> {CheonanSi, DongnamGu}] : n \in 0..(MaxTokens - 1)}}
    \cup {<<>>}

\* Province names for the alias tables: every key of each table, a name
\* that only starts with a key, and a name that is in neither.
SidoNames ==
    {sido_map[i][1] : i \in 1..Len(sido_map)} \cup {Do(Gyeonggi) \o CheonanSi, Nowhere}
ProvinceNames ==
    {PROVINCE_KEY_MAP[i][1] : i \in 1..Len(PROVINCE_KEY_MAP)}
    \cup {Join2(PROVINCE_KEY_MAP[i][1], CheonanSi) : i \in 1..Len(PROVINCE_KEY_MAP)}
    \cup {Nowhere, <<>>}

UnitFns == RegionFns \cup {"split_to_quarters", "get_region_labels",
                           "map_sido", "parse_region_name"}

UnitArgs(f) ==
    IF f = "split_to_quarters" THEN UnitMonths \X UnitMonths
    ELSE IF f = "get_region_labels" THEN LabelNames
    ELSE IF f = "map_sido" THEN SidoNames
    ELSE IF f = "parse_region_name" THEN ProvinceNames
    ELSE UnitNames

\* No program runs during a unit call.
NoRun ==
    /\ script = "none" /\ api_key = None /\ region_name = None /\ lawd_cd = None
    /\ start = None /\ end = None /\ start_year = 0 /\ today = <<0, 0>>
    /\ pc = "exit" /\ resolved = None /\ queries = <<>> /\ sub = 0 /\ page = 0 /\ items = <<>>
    /\ tables = <<>> /\ requests = <<>> /\ resps = <<>> /\ lookups = 0
    /\ workbook = [state |-> "none", sheets |-> <<>>]
    /\ exit = [done |-> TRUE, code |-> 0, exc |-> "none"]

UnitInit ==
    /\ NoRun
    /\ \E f \in UnitFns : fn = f /\ arg \in UnitArgs(f)
    /\ ret = Pending

Call_split_to_quarters ==
    /\ fn = "split_to_quarters" /\ ret = Pending
    /\ ret' = Returned(split_to_quarters(arg[1], arg[2]))
    /\ UNCHANGED <<fn, arg>> /\ UNCHANGED runvars

Call_split_region_name ==
    /\ fn = "split_region_name" /\ ret = Pending
    /\ ret' = split_region_name(arg)
    /\ UNCHANGED <<fn, arg>> /\ UNCHANGED runvars

Call_get_admmCd ==
    /\ fn = "get_admmCd" /\ ret = Pending
    /\ ret' = get_admmCd(arg)
    /\ UNCHANGED <<fn, arg>> /\ UNCHANGED runvars

Call_get_region_code ==
    /\ fn = "get_region_code" /\ ret = Pending
    /\ ret' = get_region_code(arg)
    /\ UNCHANGED <<fn, arg>> /\ UNCHANGED runvars

Call_get_region_labels ==
    /\ fn = "get_region_labels" /\ ret = Pending
    /\ ret' = get_region_labels(arg)
    /\ UNCHANGED <<fn, arg>> /\ UNCHANGED runvars

Call_map_sido ==
    /\ fn = "map_sido" /\ ret = Pending
    /\ ret' = map_sido(arg)
    /\ UNCHANGED <<fn, arg>> /\ UNCHANGED runvars

\* The short form map_sido returned is passed to map_sido again.
Call_map_sido_again ==
    /\ fn = "map_sido" /\ ret # Pending /\ ret.exc = "none"
    /\ fn' = "map_sido(map_sido)" /\ arg' = ret.val
    /\ ret' = map_sido(ret.val)
    /\ UNCHANGED runvars

Call_parse_region_name ==
    /\ fn = "parse_region_name" /\ ret = Pending
    /\ ret' = parse_region_name(arg)
    /\ UNCHANGED <<fn, arg>> /\ UNCHANGED runvars

\* The province key parse_region_name returned is passed to it again.
Call_parse_region_name_again ==
    /\ fn = "parse_region_name" /\ ret # Pending /\ ret.exc = "none"
    /\ fn' = "parse_region_name(province_key)" /\ arg' = ret.val[1]
    /\ ret' = parse_region_name(ret.val[1])
    /\ UNCHANGED runvars

UnitNext ==
    \/ Call_split_to_quarters
    \/ Call_split_region_name
    \/ Call_get_admmCd
    \/ Call_get_region_code
    \/ Call_get_region_labels
    \/ Call_map_sido
    \/ Call_map_sido_again
    \/ Call_parse_region_name
    \/ Call_parse_region_name_again

SpecUnit == UnitInit /\ [][UnitNext]_vars

(***************************************************************************)
(* C4  split_to_quarters(start, end), for valid YYYYMM months with         *)
(* start <= end, partitions the range: the first window begins at start,   *)
(* the last ends at end, every window has fr <= to and spans at most three *)
(* months, each window after the first begins one month after the previous *)
(* one ends, and there are ceil(months / 3) windows; 202101..202107 gives  *)
(* exactly (202101,202103), (202104,202106), (202107,202107).              *)
(***************************************************************************)
\* Months since year 0 of a six-digit "YYYYMM".
MonthIndex(s) == (s[1] * 1000 + s[2] * 100 + s[3] * 10 + s[4]) * 12 + (s[5] * 10 + s[6]) - 1

ValidYM(s) == Len(s) = 6 /\ s[5] * 10 + s[6] \in 1..12

C4_QuartersPartition ==
    (fn = "split_to_quarters" /\ ret # Pending /\ MonthIndex(arg[1]) <= MonthIndex(arg[2])) =>
        LET w == ret.val
            months == MonthIndex(arg[2]) - MonthIndex(arg[1]) + 1
        IN  /\ ret.exc = "none"
            /\ Len(w) = (months + 2) \div 3
            /\ w[1][1] = arg[1]
            /\ w[Len(w)][2] = arg[2]
            /\ \A i \in 1..Len(w) :
                   /\ ValidYM(w[i][1]) /\ ValidYM(w[i][2])
                   /\ MonthIndex(w[i][1]) <= MonthIndex(w[i][2])
                   /\ MonthIndex(w[i][2]) - MonthIndex(w[i][1]) + 1 <= 3
            /\ \A i \in 2..Len(w) : MonthIndex(w[i][1]) = MonthIndex(w[i - 1][2]) + 1
            /\ (arg = <<YM(2021, 1), YM(2021, 7)>> =>
                   w = << <<YM(2021, 1), YM(2021, 3)>>, <<YM(2021, 4), YM(2021, 6)>>,
                          <<YM(2021, 7), YM(2021, 7)>> >>)

\* A range across a December/January boundary has been split.
C4_Witness ==
    /\ fn = "split_to_quarters" /\ ret # Pending
    /\ arg = <<YM(2021, 11), YM(2022, 2)>>
    /\ ret.val = << <<YM(2021, 11), YM(2022, 1)>>, <<YM(2022, 2), YM(2022, 2)>> >>

(***************************************************************************)
(* C5  Region resolution fails with a ValueError for every region name     *)
(* whose number of whitespace-separated tokens is zero or more than three, *)
(* in split_region_name, get_admmCd and get_region_code alike.             *)
(***************************************************************************)
C5_ValueErrorOutsideRange ==
    (fn \in RegionFns /\ ret # Pending /\ Len(split(arg)) \notin 1..3) =>
        ret.exc = "ValueError"

(***************************************************************************)
(* The programs.                                                           *)
(***************************************************************************)
Scripts == {"notsold", "common", "population_report", "real_estate_report",
            "monthly_price_index"}

\* os.getenv: unset, set to the empty string, set to a key
ApiKeys == {None, <<>>, <<"k">>}

\* A bug the key check could have: only an unset variable is refused.
Falsy_unset(v) == v = None

\* "not v" for a string or None
Falsy(v) == v = None \/ v = <<>>

RunNames ==
    { <<>>,
      ChungcheongnamDo,
      Join2(ChungcheongnamDo, CheonanSi),
      Join3(ChungcheongnamDo, CheonanSi, DongnamGu),
      Join2(ChungcheongnamDo, AsanSi),
      Join3(ChungcheongnamDo, CheonanSi, DongnamGu) \o <<SP>> \o Nowhere,
      Teukbyeolsi(Seoul),
      Nowhere }

\* A one-window period, a three-window one, one across a year's end, and
\* one that ends before it starts.
OneMonth == <<YM(2021, 3), YM(2021, 3)>>
RunPeriods ==
    { OneMonth, <<YM(2021, 1), YM(2021, 7)>>, <<YM(2021, 11), YM(2022, 1)>>,
      <<YM(2021, 7), YM(2021, 1)>> }

\* <<start_year, today>>: one month, two months, or none to collect.
OneMonthClock == <<2024, <<2024, 1>> >>
RunClocks == { OneMonthClock, <<2024, <<2024, 2>> >>, <<2025, <<2024, 6>> >> }

NoPeriod == <<YM(2021, 1), YM(2021, 7)>>
NoClock == <<0, <<0, 0>> >>

\* The command lines a program is started with: <<region, lawd_cd, period, clock>>.
\* Every region name is tried; the longer periods are tried with the
\* shortest region names.
Args(s) ==
    IF s = "notsold" THEN {<<n, None, NoPeriod, NoClock>> : n \in RunNames}
    ELSE IF s = "common" THEN {<<None, None, NoPeriod, NoClock>>}
    ELSE IF s = "population_report"
    THEN {<<n, None, OneMonth, NoClock>> : n \in RunNames}
         \cup {<<ChungcheongnamDo, None, p, NoClock>> : p \in RunPeriods}
         \cup {<<Join2(ChungcheongnamDo, CheonanSi), None, <<YM(2021, 11), YM(2022, 1)>>, NoClock>>}
    ELSE IF s = "real_estate_report"
    THEN {<<n, None, NoPeriod, OneMonthClock>> : n \in RunNames}
         \cup {<<None, <<4, 4, 1, 3, 0>>, NoPeriod, c>> : c \in RunClocks}
    ELSE {<<n, None, NoPeriod, NoClock>> : n \in RunNames}

Running == [done |-> FALSE, code |-> 0, exc |-> "none"]
Exit(c, e) == [done |-> TRUE, code |-> c, exc |-> e]

Init ==
    /\ script \in Scripts
    /\ api_key \in ApiKeys
    /\ \E a \in Args(script) :
           /\ region_name = a[1] /\ lawd_cd = a[2]
           /\ start = a[3][1] /\ end = a[3][2]
           /\ start_year = a[4][1] /\ today = a[4][2]
    /\ pc = "start" /\ resolved = None /\ queries = <<>> /\ sub = 0 /\ page = 0
    /\ items = <<>> /\ tables = <<>> /\ requests = <<>> /\ resps = <<>>
    /\ lookups = 0
    /\ workbook = [state |-> "none", sheets |-> <<>>]
    /\ exit = Running
    /\ fn = "none" /\ arg = None /\ ret = Pending

inputs == <<script, api_key, region_name, lawd_cd, start, end, start_year, today>>

(***************************************************************************)
(* The servers.                                                            *)
(***************************************************************************)
\* What one GET can produce.  kind "list": a page of n records; "dict": a
\* single record sent as a bare object; "api_error": a 2xx answer whose
\* resultCode is not '0'; the rest: the request or the parse failed.
ListResp(n) == [kind |-> "list", n |-> n]
DictResp == [kind |-> "dict", n |-> 1]
FailResp(k) == [kind |-> k, n |-> 0]

Failures == {"http_error", "conn_error", "bad_body"}

\* A page holds no record, one record, or as many as were asked for.
Sizes(numOfRows) == {0, 1, numOfRows}

Block(s, p, n, k) == [sub |-> s, pageNo |-> p, n |-> n, kind |-> k]

RECURSIVE Count(_)
\* len() of a list held as blocks
Count(bs) == IF bs = <<>> THEN 0 ELSE bs[1].n + Count(Tail(bs))

RECURSIVE Flatten(_)
Flatten(ts) == IF ts = <<>> THEN <<>> ELSE ts[1] \o Flatten(Tail(ts))

\* Everything fetched that the program still holds, oldest first.
AllBlocks == Flatten(tables) \o items

\* Non-empty pages and failed GETs so far.
DataPages == Cardinality({i \in 1..Len(resps) : resps[i].n > 0})
FailCount == Cardinality({i \in 1..Len(resps) : resps[i].kind \notin {"list", "dict"}})

DataResponses(kinds) == IF DataPages < MaxDataPages THEN kinds ELSE {}
FailResponses(kinds) == IF FailCount < MaxFailures THEN {FailResp(k) : k \in kinds} ELSE {}

\* A JSON endpoint that sends the list under a key.
JsonResponses(numOfRows) ==
    {ListResp(0)} \cup FailResponses(Failures)
    \cup DataResponses({ListResp(n) : n \in Sizes(numOfRows) \ {0}} \cup {DictResp})

\* The population endpoint, which also reports errors in a 2xx answer.
PopulationResponses(numOfRows) ==
    {ListResp(0)} \cup FailResponses(Failures \cup {"api_error"})
    \cup DataResponses({ListResp(n) : n \in Sizes(numOfRows) \ {0}} \cup {DictResp})

\* An XML endpoint.
XmlResponses(numOfRows) ==
    {ListResp(0)} \cup FailResponses(Failures)
    \cup DataResponses({ListResp(n) : n \in Sizes(numOfRows) \ {0}})

\* The exception requests / the parser raises for a failed GET.
ExcOf(kind) ==
    IF kind = "http_error" THEN "HTTPError"
    ELSE IF kind = "conn_error" THEN "ConnectionError"
    ELSE "JSONDecodeError"

\* A bug the loops could have: the page counter starting at 0.
Request_from_zero(numOfRows) == [sub |-> sub, pageNo |-> page - 1, numOfRows |-> numOfRows]

Request(numOfRows) == [sub |-> sub, pageNo |-> page, numOfRows |-> numOfRows]

\* requests.get: the GET is issued and answered.
Get(numOfRows, r) ==
    /\ requests' = Append(requests, Request(numOfRows))
    /\ resps' = Append(resps, r)

\* The process ends.
Stop(code, exc) == pc' = "exit" /\ exit' = Exit(code, exc)

(***************************************************************************)
(* notsold.py                                                              *)
(***************************************************************************)
notsold_numOfRows == 1000

\* main, lines 119-123: the key check and parse_region_name
notsold_main ==
    /\ script = "notsold" /\ pc = "start"
    /\ IF Falsy(api_key)
       THEN /\ Stop(1, "EnvironmentError")
            /\ UNCHANGED <<resolved, queries, sub, page>>
       ELSE LET r == parse_region_name(region_name)
            IN  IF r.exc # "none"
                THEN /\ Stop(1, r.exc)
                     /\ UNCHANGED <<resolved, queries, sub, page>>
                ELSE /\ pc' = "fetch" /\ exit' = exit
                     /\ resolved' = r.val
                     /\ queries' = << [form_id |-> 2082, style_num |-> 128],
                                     [form_id |-> 5328, style_num |-> 1] >>
                     /\ sub' = 1 /\ page' = 1
    /\ UNCHANGED <<items, tables, requests, resps, lookups, workbook>>
    /\ UNCHANGED inputs /\ UNCHANGED unitvars

\* A bug the loop could have: a full page ends the fetch as a short one does.
form_list_last_page_le(n) == n <= notsold_numOfRows

\* line 27: len(items) < page_params["numOfRows"]
form_list_last_page(n) == n < notsold_numOfRows

\* A bug the fetch could have: the status of the answer is not looked at.
form_list_raises_unchecked(r) == r.kind \in {"conn_error", "bad_body"}

\* lines 20-22: requests.get, raise_for_status and response.json() raise
form_list_raises(r) == r.kind \in Failures

\* pd.DataFrame(data) and the column rename of fetch_monthly_notsold /
\* fetch_completed_notsold: the exception raised, or "none"
notsold_frame(data) ==
    IF data = <<>> THEN "KeyError"
    ELSE IF \A i \in 1..Len(data) : data[i].kind = "key" THEN "KeyError"
    ELSE IF \E i \in 1..Len(data) : data[i].kind = "key" THEN "AttributeError"
    ELSE "none"

\* fetch_form_list returns data to fetch_*_notsold and main goes on.
notsold_return(data) ==
    /\ tables' = Append(tables, data)
    /\ items' = <<>>
    /\ IF notsold_frame(data) # "none"
       THEN Stop(1, notsold_frame(data)) /\ UNCHANGED <<sub, page>>
       ELSE /\ exit' = exit
            /\ IF sub < Len(queries)
               THEN pc' = pc /\ sub' = sub + 1 /\ page' = 1
               ELSE pc' = "write" /\ sub' = sub /\ page' = page

\* One turn of the loop of fetch_form_list, lines 13-29.
notsold_fetch_form_list ==
    /\ script = "notsold" /\ pc = "fetch"
    /\ \E r \in JsonResponses(notsold_numOfRows) :
           /\ Get(notsold_numOfRows, r)
           /\ IF form_list_raises(r)
              THEN /\ Stop(1, ExcOf(r.kind))
                   /\ UNCHANGED <<items, tables, sub, page>>
              ELSE IF r.n = 0
              THEN notsold_return(items)
              ELSE LET b == IF r.kind = "dict"
                            THEN Block(sub, page, DictFields, "key")
                            ELSE Block(sub, page, r.n, "record")
                   IN  IF form_list_last_page(b.n)
                       THEN notsold_return(Append(items, b))
                       ELSE /\ items' = Append(items, b) /\ page' = page + 1
                            /\ UNCHANGED <<pc, exit, tables, sub>>
    /\ UNCHANGED <<resolved, queries, lookups, workbook>>
    /\ UNCHANGED inputs /\ UNCHANGED unitvars

\* The region levels main writes sheets for: province, city, district.
notsold_levels == {i \in 1..3 : resolved[i] # None}

Sheet(name, rows) == [name |-> name, rows |-> rows]

\* main, lines 130-148: filter_by_region and the ExcelWriter block.  Which
\* levels have rows depends on the records; a workbook without a sheet
\* cannot be saved.
notsold_write ==
    /\ script = "notsold" /\ pc = "write"
    /\ \E hit \in SUBSET notsold_levels :
           IF hit = {}
           THEN /\ workbook' = [state |-> "failed", sheets |-> <<>>]
                /\ Stop(1, "IndexError")
           ELSE /\ workbook' = [state |-> "saved",
                                sheets |-> [i \in 1..(2 * Cardinality(hit)) |->
                                               Sheet("level", <<>>)]]
                /\ Stop(0, "none")
    /\ UNCHANGED <<resolved, queries, sub, page, items, tables, requests, resps, lookups>>
    /\ UNCHANGED inputs /\ UNCHANGED unitvars

(***************************************************************************)
(* common.py, called by a program that fetches one list and ends.          *)
(***************************************************************************)
common_numOfRows == 1000

\* fetch_json_list, lines 15-25: the key check
common_fetch_json_list_enter ==
    /\ script = "common" /\ pc = "start"
    /\ IF Falsy(api_key)
       THEN Stop(1, "SystemExit") /\ UNCHANGED <<queries, sub, page>>
       ELSE /\ pc' = "fetch" /\ exit' = exit
            /\ queries' = <<[list_key |-> "formList"]>>
            /\ sub' = 1 /\ page' = 1
    /\ UNCHANGED <<resolved, items, tables, requests, resps, lookups, workbook>>
    /\ UNCHANGED inputs /\ UNCHANGED unitvars

\* A bug the loop could have: an empty page does not end it.
json_list_ends_never(n) == n < 0

\* A bug the loop could have: a short page ends it, before it is kept.
json_list_ends_short(n) == n < common_numOfRows

\* line 37: not recs
json_list_ends(n) == n = 0

\* One turn of the loop of fetch_json_list, lines 26-43.
common_fetch_json_list ==
    /\ script = "common" /\ pc = "fetch"
    /\ \E r \in JsonResponses(common_numOfRows) :
           /\ Get(common_numOfRows, r)
           /\ IF r.kind \in Failures
              THEN /\ Stop(1, ExcOf(r.kind))
                   /\ UNCHANGED <<items, tables, page>>
              ELSE IF json_list_ends(r.n)
              THEN /\ tables' = Append(tables, items) /\ items' = <<>>
                   /\ Stop(0, "none") /\ page' = page
              ELSE /\ items' = Append(items,
                                      IF r.kind = "dict"
                                      THEN Block(sub, page, DictFields, "key")
                                      ELSE Block(sub, page, r.n, "record"))
                   /\ page' = page + 1
                   /\ UNCHANGED <<pc, exit, tables>>
    /\ UNCHANGED <<resolved, queries, sub, lookups, workbook>>
    /\ UNCHANGED inputs /\ UNCHANGED unitvars

(***************************************************************************)
(* population_report.py                                                    *)
(***************************************************************************)
population_numOfRows == 100

\* lines 73-91: the (lv, admmCd) calls to make, the exception that ends the
\* preparation if one does, and the number of get_admmCd calls made
population_calls(name) ==
    LET parts == split(name)
        r1 == get_admmCd(parts[1])
        r2 == get_admmCd(Join2(parts[1], parts[2]))
        r3 == get_admmCd(name)
        c1 == <<[lv |-> 1, admmCd |-> r1.val]>>
        c2 == Append(c1, [lv |-> 2, admmCd |-> r2.val])
        c3 == Append(c2, [lv |-> 3, admmCd |-> r3.val])
        out(e, c, n) == [exc |-> e, calls |-> c, lookups |-> n]
    IN  IF Len(parts) = 0 THEN out("IndexError", <<>>, 0)   \* sido = parts[0]
        ELSE IF r1.exc # "none" THEN out(r1.exc, <<>>, 1)
        ELSE IF Len(parts) < 2 THEN out("none", c1, 1)
        ELSE IF r2.exc # "none" THEN out(r2.exc, <<>>, 2)
        ELSE IF Len(parts) # 3 THEN out("none", c2, 2)
        ELSE IF r3.exc # "none" THEN out(r3.exc, <<>>, 3)
        ELSE out("none", c3, 3)

\* lines 147-148: every call over every window, in loop order
population_queries(calls, wins) ==
    [i \in 1..(Len(calls) * Len(wins)) |->
        LET c == calls[((i - 1) \div Len(wins)) + 1]
            w == wins[((i - 1) % Len(wins)) + 1]
        IN  [lv |-> c.lv, admmCd |-> c.admmCd, fr |-> w[1], to |-> w[2]]]

\* lines 72-97: the calls are prepared, then the API key is checked
population_prepare ==
    /\ script = "population_report" /\ pc = "start"
    /\ LET c == population_calls(region_name)
           q == population_queries(c.calls, split_to_quarters(start, end))
       IN  /\ lookups' = c.lookups
           /\ IF c.exc # "none"
              THEN Stop(1, c.exc) /\ UNCHANGED <<resolved, queries, sub, page>>
              ELSE IF Falsy(api_key)
              THEN Stop(1, "SystemExit") /\ UNCHANGED <<resolved, queries, sub, page>>
              ELSE /\ resolved' = c.calls /\ queries' = q /\ exit' = exit
                   /\ IF q = <<>>
                      THEN pc' = "write" /\ sub' = sub /\ page' = page
                      ELSE pc' = "fetch" /\ sub' = 1 /\ page' = 1
    /\ UNCHANGED <<items, tables, requests, resps, workbook>>
    /\ UNCHANGED inputs /\ UNCHANGED unitvars

\* fetch_page, lines 116-125: the number of records in the list it returns
population_fetch_page(r) ==
    IF r.kind = "api_error" THEN 0
    ELSE IF r.kind = "dict" THEN 1
    ELSE r.n

\* One turn of the collection loop, lines 151-157, with fetch_page.
population_collect ==
    /\ script = "population_report" /\ pc = "fetch"
    /\ \E r \in PopulationResponses(population_numOfRows) :
           /\ Get(population_numOfRows, r)
           /\ IF r.kind \in Failures
              THEN Stop(1, ExcOf(r.kind)) /\ UNCHANGED <<items, sub, page>>
              ELSE IF population_fetch_page(r) = 0
              THEN /\ items' = items /\ exit' = exit
                   /\ IF sub < Len(queries)
                      THEN pc' = pc /\ sub' = sub + 1 /\ page' = 1
                      ELSE pc' = "write" /\ sub' = sub /\ page' = page
              ELSE /\ items' = Append(items,
                                      Block(sub, page, population_fetch_page(r), "record"))
                   /\ page' = page + 1
                   /\ UNCHANGED <<pc, exit, sub>>
    /\ UNCHANGED <<resolved, queries, tables, lookups, workbook>>
    /\ UNCHANGED inputs /\ UNCHANGED unitvars

\* lines 159-226: the table is built and filtered, then written.  Whether
\* the filter keeps a row depends on the records.
\* Lines 191-226 carry one stray leading space in the source; they are
\* modelled as the module-level statements they are written to be.
population_write ==
    /\ script = "population_report" /\ pc = "write"
    /\ IF items = <<>>
       THEN Stop(1, "KeyError") /\ workbook' = workbook     \* df_raw["statsYm"]
       ELSE \E kept \in BOOLEAN :
                IF ~kept
                THEN Stop(1, "ValueError") /\ workbook' = workbook   \* max([])
                ELSE /\ workbook' = [state |-> "saved",
                                     sheets |-> <<Sheet("population", items),
                                                  Sheet("summary", items)>>]
                     /\ Stop(0, "none")
    /\ UNCHANGED <<resolved, queries, sub, page, items, tables, requests, resps, lookups>>
    /\ UNCHANGED inputs /\ UNCHANGED unitvars

(***************************************************************************)
(* real_estate_report.py                                                   *)
(***************************************************************************)
real_estate_numOfRows == 1000

\* line 96: f"{yyyy}{mm:02d}"
ymd(yyyy, mm) == Digits(yyyy) \o (IF mm < 10 THEN <<0>> \o Digits(mm) ELSE Digits(mm))

RECURSIVE months_from(_, _, _)
\* lines 93-96: the months of the years yyyy..end_year, up to end_month
months_from(yyyy, end_year, end_month) ==
    IF yyyy > end_year THEN <<>>
    ELSE [mm \in 1..(IF yyyy = end_year THEN end_month ELSE 12) |-> ymd(yyyy, mm)]
         \o months_from(yyyy + 1, end_year, end_month)

\* lines 157-161: collect_all for sale, rent and silv, each over the months
real_estate_queries ==
    LET ms == months_from(start_year, today[1], today[2])
        of(u) == [i \in 1..Len(ms) |-> [url |-> u, DEAL_YMD |-> ms[i]]]
    IN  of("sale") \o of("rent") \o of("silv")

\* lines 52-66: the region code is settled, then the API key is checked
real_estate_resolve ==
    /\ script = "real_estate_report" /\ pc = "start"
    /\ LET r == IF ~Falsy(lawd_cd) THEN Returned(lawd_cd) ELSE get_region_code(region_name)
           q == real_estate_queries
       IN  /\ lookups' = IF Falsy(lawd_cd) /\ Len(split(region_name)) \in {2, 3} THEN 1 ELSE 0
           /\ IF r.exc # "none"
              THEN /\ Stop(1, "SystemExit")    \* print("ERROR:", e); sys.exit(1)
                   /\ UNCHANGED <<resolved, queries, sub, page, tables>>
              ELSE IF Falsy(api_key)
              THEN /\ Stop(1, "SystemExit")
                   /\ UNCHANGED <<resolved, queries, sub, page, tables>>
              ELSE /\ resolved' = r.val /\ queries' = q /\ exit' = exit
                   /\ IF q = <<>>
                      THEN /\ pc' = "write" /\ sub' = sub /\ page' = page
                           /\ tables' = << <<>>, <<>>, <<>> >>
                      ELSE /\ pc' = "fetch" /\ sub' = 1 /\ page' = 1
                           /\ tables' = tables
    /\ UNCHANGED <<items, requests, resps, workbook>>
    /\ UNCHANGED inputs /\ UNCHANGED unitvars

\* fetch_items, lines 73-85: the number of records it returns
real_estate_fetch_items(r) == IF r.kind \in Failures THEN 0 ELSE r.n

\* A bug collect_all could have: only the newest page is kept.
collect_all_rows_newest(rows, df) == <<df>>

\* line 147: rows.append(df)
collect_all_rows(rows, df) == Append(rows, df)

\* A bug collect_all could have: an empty page ends the whole collection.
next_query_none(s) == Len(queries) + 1

\* lines 95-109: after the break the month loop goes on with the next month
next_query(s) == s + 1

\* One turn of the loop of collect_all, lines 98-148, with fetch_items.
\* The records of a page carry the columns that line 111 selects; what the
\* loop does with a page that lacks one (KeyError) is outside this model.
real_estate_collect_all ==
    /\ script = "real_estate_report" /\ pc = "fetch"
    /\ \E r \in XmlResponses(real_estate_numOfRows) :
           /\ Get(real_estate_numOfRows, r)
           /\ IF real_estate_fetch_items(r) = 0
              THEN LET n == next_query(sub)
                       returns == n > Len(queries) \/ queries[n].url # queries[sub].url
                   IN  /\ IF returns
                          THEN tables' = Append(tables, items) /\ items' = <<>>
                          ELSE tables' = tables /\ items' = items
                       /\ IF n > Len(queries)
                          THEN pc' = "write" /\ sub' = sub /\ page' = page
                          ELSE pc' = pc /\ sub' = n /\ page' = 1
              ELSE /\ items' = collect_all_rows(items,
                                       Block(sub, page, real_estate_fetch_items(r), "record"))
                   /\ page' = page + 1
                   /\ UNCHANGED <<pc, sub, tables>>
    /\ UNCHANGED <<resolved, queries, exit, lookups, workbook>>
    /\ UNCHANGED inputs /\ UNCHANGED unitvars

\* make_pivot, lines 172-203: an empty table gives an empty pivot; for any
\* other the aggregation names a column the table does not have.
make_pivot(df) == IF df = <<>> THEN Returned(<<>>) ELSE Raised("KeyError")

RECURSIVE pivot_sheets(_)
\* lines 206-208: the pivot sheets written before make_pivot raises
pivot_sheets(i) ==
    IF i > Len(tables) \/ make_pivot(tables[i]).exc # "none" THEN <<>>
    ELSE <<Sheet("pivot", make_pivot(tables[i]).val)>> \o pivot_sheets(i + 1)

\* lines 165-210: the ExcelWriter block; the writer saves the workbook when
\* the block is left, also when it is left by an exception.
real_estate_write ==
    /\ script = "real_estate_report" /\ pc = "write"
    /\ workbook' = [state |-> "saved",
                    sheets |-> [i \in 1..Len(tables) |-> Sheet("raw", tables[i])]
                               \o pivot_sheets(1)]
    /\ IF \E i \in 1..Len(tables) : make_pivot(tables[i]).exc # "none"
       THEN Stop(1, "KeyError")
       ELSE Stop(0, "none")
    /\ UNCHANGED <<resolved, queries, sub, page, items, tables, requests, resps, lookups>>
    /\ UNCHANGED inputs /\ UNCHANGED unitvars

(***************************************************************************)
(* monthly_price_index.py                                                  *)
(***************************************************************************)
price_pSize == 1000

\* lines 82-94: the API key is checked, then the labels are built
price_prepare ==
    /\ script = "monthly_price_index" /\ pc = "start"
    /\ LET r == get_region_labels(region_name)
       IN  IF Falsy(api_key)
           THEN Stop(1, "SystemExit") /\ UNCHANGED <<resolved, queries, sub, page>>
           ELSE IF r.exc # "none"
           THEN Stop(1, r.exc) /\ UNCHANGED <<resolved, queries, sub, page>>
           ELSE /\ resolved' = r.val
                /\ queries' = [i \in 1..Len(r.val) |-> [label |-> r.val[i]]]
                /\ pc' = "fetch" /\ sub' = 1 /\ page' = 1 /\ exit' = exit
    /\ UNCHANGED <<items, tables, requests, resps, lookups, workbook>>
    /\ UNCHANGED inputs /\ UNCHANGED unitvars

\* A bug the label loop could have: after the last label it starts over.
price_continue_again == pc' = pc /\ sub' = IF sub < Len(queries) THEN sub + 1 ELSE 1

\* The label loop goes on with the next label, or ends.
price_continue ==
    IF sub < Len(queries)
    THEN pc' = pc /\ sub' = sub + 1
    ELSE pc' = "write" /\ sub' = sub

\* One turn of the label loop, lines 97-145.
price_collect ==
    /\ script = "monthly_price_index" /\ pc = "fetch"
    /\ lookups' = lookups + 1
    /\ IF get_cls_id(queries[sub].label).exc # "none"
       THEN UNCHANGED <<requests, resps, items>>     \* WARNING, continue
       ELSE \E r \in XmlResponses(price_pSize) :
                /\ Get(price_pSize, r)
                /\ IF r.kind \in Failures \/ r.n = 0
                   THEN items' = items               \* ERROR / no data, continue
                   ELSE items' = Append(items, Block(sub, page, r.n, "record"))
    /\ price_continue
    /\ UNCHANGED <<resolved, queries, page, tables, exit, workbook>>
    /\ UNCHANGED inputs /\ UNCHANGED unitvars

\* lines 147-184: without data the run ends; else the tables are written
price_write ==
    /\ script = "monthly_price_index" /\ pc = "write"
    /\ IF items = <<>>
       THEN Stop(1, "SystemExit") /\ workbook' = workbook
       ELSE /\ workbook' = [state |-> "saved",
                            sheets |-> <<Sheet("full", items), Sheet("summary", items)>>]
            /\ Stop(0, "none")
    /\ UNCHANGED <<resolved, queries, sub, page, items, tables, requests, resps, lookups>>
    /\ UNCHANGED inputs /\ UNCHANGED unitvars

Next ==
    \/ notsold_main
    \/ notsold_fetch_form_list
    \/ notsold_write
    \/ common_fetch_json_list_enter
    \/ common_fetch_json_list
    \/ population_prepare
    \/ population_collect
    \/ population_write
    \/ real_estate_resolve
    \/ real_estate_collect_all
    \/ real_estate_write
    \/ price_prepare
    \/ price_collect
    \/ price_write

Spec == Init /\ [][Next]_vars

(***************************************************************************)
(* What the logs say about one sub-query (one fetch call, one window, one  *)
(* month, one label).                                                      *)
(***************************************************************************)
ReqIdx(s) == {i \in 1..Len(requests) : requests[i].sub = s}
ReqsOf(s) == SelectSeq(requests, LAMBDA q : q.sub = s)
FirstReq(s) == CHOOSE i \in ReqIdx(s) : \A j \in ReqIdx(s) : i <= j
AnswersOf(s) == [k \in 1..Cardinality(ReqIdx(s)) |-> resps[FirstReq(s) + k - 1]]
BlocksOf(s) == SelectSeq(AllBlocks, LAMBDA b : b.sub = s)
Asked == {requests[i].sub : i \in 1..Len(requests)}
\* The fetch of sub-query s is over.
Ended(s) == s < sub \/ pc # "fetch"
OnlyLists(a) == \A i \in 1..Len(a) : a[i].kind = "list"
Pages(s, n, numOfRows) == [i \in 1..n |-> [sub |-> s, pageNo |-> i, numOfRows |-> numOfRows]]
NumOfRows ==
    IF script = "population_report" THEN population_numOfRows
    ELSE IF script = "notsold" THEN notsold_numOfRows
    ELSE IF script = "common" THEN common_numOfRows
    ELSE real_estate_numOfRows
\* The position in the log of every GET that failed.
Failed == {i \in 1..Len(resps) : resps[i].kind \in Failures}
\* The pages received before GET i, as blocks.
ReceivedBefore(i) ==
    {<<requests[j].sub, requests[j].pageNo>> : j \in {j \in 1..(i - 1) : resps[j].n > 0}}
Held(bs) == {<<bs[i].sub, bs[i].pageNo>> : i \in 1..Len(bs)}
Written == UNION {Held(workbook.sheets[i].rows) : i \in 1..Len(workbook.sheets)}

(***************************************************************************)
(* C1  notsold.fetch_form_list, page size P = 1000: a call that was        *)
(* answered with lists only has seen N full pages and then one page of     *)
(* k < P items; it returns exactly those N*P + k items in page order and   *)
(* has issued exactly N+1 GETs, with pageNo 1, 2, ..., N+1.                *)
(***************************************************************************)
C1_FormListPages ==
    script = "notsold" =>
        \A s \in 1..Len(tables) :
            LET a == AnswersOf(s)
                N == Len(a) - 1
                k == a[N + 1].n
                P == notsold_numOfRows
            IN  OnlyLists(a) =>
                    /\ N >= 0
                    /\ \A i \in 1..N : a[i].n = P
                    /\ k < P
                    /\ tables[s] = [i \in 1..N |-> Block(s, i, P, "record")]
                                   \o (IF k > 0 THEN <<Block(s, N + 1, k, "record")>> ELSE <<>>)
                    /\ Count(tables[s]) = N * P + k
                    /\ ReqsOf(s) = Pages(s, N + 1, P)

\* One full page and a page of one item have been fetched and returned.
C1_Witness ==
    /\ script = "notsold" /\ Len(tables) >= 1
    /\ AnswersOf(1) = <<ListResp(notsold_numOfRows), ListResp(1)>>
    /\ Count(tables[1]) = notsold_numOfRows + 1
    /\ Len(ReqsOf(1)) = 2

(***************************************************************************)
(* C2  As claimed: in the loops that test only for an empty page           *)
(* (common.fetch_json_list, the population_report loop, collect_all), a    *)
(* sub-query that was answered with N full pages followed by a page of     *)
(* k < P items has returned N*P + k items with exactly N+1 GETs.           *)
(***************************************************************************)
EmptyOnly == script \in {"common", "population_report", "real_estate_report"}

C2_Original ==
    EmptyOnly =>
        \A s \in Asked :
            LET a == AnswersOf(s)
                P == NumOfRows
            IN  Ended(s) =>
                    \A N \in 0..(Len(a) - 1) :
                        ((\A i \in 1..N : a[i] = ListResp(P))
                         /\ a[N + 1].kind = "list" /\ a[N + 1].n < P) =>
                            /\ Len(ReqsOf(s)) = N + 1
                            /\ Count(BlocksOf(s)) = N * P + a[N + 1].n

(***************************************************************************)
(* C2  As amended: these loops stop at the first empty page.  A sub-query  *)
(* answered with lists only has issued GETs for pageNo 1..m, the last page *)
(* being the only empty one, and holds the items of the pages before it.   *)
(* After N full pages and a page of k < P items that is N+1 GETs when      *)
(* k = 0; when k > 0 page N+2 is requested too, and if it is empty that is *)
(* N+2 GETs and N*P + k items.                                             *)
(***************************************************************************)
C2_StopsAtEmptyPage ==
    EmptyOnly =>
        \A s \in Asked :
            LET a == AnswersOf(s)
                m == Len(a)
                P == NumOfRows
            IN  (Ended(s) /\ OnlyLists(a)) =>
                    /\ a[m].n = 0
                    /\ \A i \in 1..(m - 1) : a[i].n > 0
                    /\ ReqsOf(s) = Pages(s, m, P)
                    /\ BlocksOf(s) = [i \in 1..(m - 1) |-> Block(s, i, a[i].n, "record")]
                    /\ \A N \in 0..(m - 1) :
                           ((\A i \in 1..N : a[i].n = P) /\ a[N + 1].n < P) =>
                               /\ a[N + 1].n = 0 => (m = N + 1 /\ Count(BlocksOf(s)) = N * P)
                               /\ a[N + 1].n > 0 =>
                                      /\ m >= N + 2
                                      /\ a[N + 2].n = 0 =>
                                             (m = N + 2 /\ Count(BlocksOf(s)) = N * P + a[N + 1].n)

\* A full page, a page of one item and the empty page that ends the loop.
C2_Witness ==
    /\ script = "common" /\ exit.done
    /\ AnswersOf(1) = <<ListResp(common_numOfRows), ListResp(1), ListResp(0)>>
    /\ Len(ReqsOf(1)) = 3
    /\ Count(tables[1]) = common_numOfRows + 1

(***************************************************************************)
(* C3  In every paginated fetcher, a sub-query whose page 1 is empty       *)
(* contributes no item and exactly one GET is issued for it, pageNo = 1.   *)
(***************************************************************************)
Paginated == script \in {"notsold", "common", "population_report", "real_estate_report"}

C3_EmptyFirstPage ==
    Paginated =>
        \A s \in Asked :
            AnswersOf(s)[1] = ListResp(0) =>
                /\ BlocksOf(s) = <<>>
                /\ ReqsOf(s) = Pages(s, 1, NumOfRows)
                /\ Ended(s)

\* The first window came back empty and the loop went on to the second.
C3_Witness ==
    /\ script = "population_report"
    /\ 1 \in Asked /\ AnswersOf(1) = <<ListResp(0)>>
    /\ 2 \in Asked /\ BlocksOf(2) # <<>>

(***************************************************************************)
(* C6  As claimed: when a region name or a label matches no row of the     *)
(* reference table, the failure is fatal: the process ends with a non-zero *)
(* exit, no GET is issued after the failed lookup and no workbook is       *)
(* written -- in population_report, real_estate_report and                 *)
(* monthly_price_index.                                                    *)
(***************************************************************************)
Fatal == exit.done /\ exit.code # 0 /\ workbook.state = "none"

\* The reference table of monthly_price_index has a row for the label.
InTable(label) == \E i \in 1..Len(code_df) : code_df[i].label = label

\* The labels of the run whose lookup has been made and has failed.
LabelsNotFound ==
    {j \in 1..Len(queries) :
        /\ ~InTable(queries[j].label)
        /\ (j < sub \/ pc # "fetch")}

C6_FatalInScripts ==
    /\ (script = "population_report" /\ pc # "start"
        /\ population_calls(region_name).exc = "LookupError") =>
           (Fatal /\ exit.exc = "LookupError" /\ requests = <<>>)
    /\ (script = "real_estate_report" /\ pc # "start" /\ Falsy(lawd_cd)
        /\ get_region_code(region_name).exc = "LookupError") =>
           (Fatal /\ requests = <<>>)

C6_Original ==
    /\ C6_FatalInScripts
    /\ script = "monthly_price_index" =>
           \A j \in LabelsNotFound :
               Fatal /\ \A i \in 1..Len(requests) : requests[i].sub < j

(***************************************************************************)
(* C6  As amended: the failure is fatal in population_report and           *)
(* real_estate_report.  In monthly_price_index the label loop catches the  *)
(* LookupError: no GET is issued for that label, the loop goes on to the   *)
(* later labels, and the run ends non-zero without a workbook only when no *)
(* label has yielded data.                                                 *)
(***************************************************************************)
C6_FatalOrSkipped ==
    /\ C6_FatalInScripts
    /\ script = "monthly_price_index" =>
           /\ \A j \in LabelsNotFound : ReqsOf(j) = <<>> /\ BlocksOf(j) = <<>>
           /\ pc \in {"write", "exit"} /\ queries # <<>> =>
                  /\ lookups = Len(queries)
                  /\ \A j \in 1..Len(queries) :
                         InTable(queries[j].label) => Len(ReqsOf(j)) = 1
           /\ (exit.done /\ queries # <<>>) =>
                  IF items = <<>> THEN Fatal
                  ELSE exit.code = 0 /\ workbook.state = "saved"

\* A label in the middle of the list was not found, a later label was
\* requested, and the run ended well.
C6_Witness ==
    /\ script = "monthly_price_index" /\ exit.done /\ exit.code = 0
    /\ \E j \in LabelsNotFound : \E i \in 1..Len(requests) : requests[i].sub > j

(***************************************************************************)
(* C7  When the API-key variable is unset or empty, the run ends with a    *)
(* non-zero exit before any GET is issued and before the workbook is       *)
(* opened, in every script.                                                *)
(***************************************************************************)
C7_NoKeyNoRequest ==
    api_key \in {None, <<>>} =>
        /\ requests = <<>>
        /\ workbook.state = "none"
        /\ pc \in {"start", "exit"}
        /\ pc = "exit" => (exit.done /\ exit.code # 0)

\* population_report ended at its key check, the region having resolved.
C7_Witness ==
    /\ script = "population_report" /\ api_key = <<>>
    /\ exit.done /\ exit.exc = "SystemExit" /\ lookups > 0

(***************************************************************************)
(* C8  A non-2xx status on page p makes fetch_json_list, fetch_form_list   *)
(* and fetch_page raise at once: the error reaches the caller, page p is   *)
(* not requested again and no later page is requested.                     *)
(***************************************************************************)
C8_StatusRaises ==
    script \in {"common", "notsold", "population_report"} =>
        \A i \in 1..Len(resps) :
            resps[i].kind = "http_error" =>
                /\ i = Len(requests)
                /\ pc = "exit"
                /\ exit = Exit(1, "HTTPError")
                /\ workbook.state = "none"

\* fetch_form_list got a full page and then a non-2xx status on page 2.
C8_Witness ==
    /\ script = "notsold"
    /\ resps = <<ListResp(notsold_numOfRows), FailResp("http_error")>>
    /\ requests = Pages(1, 2, notsold_numOfRows)

(***************************************************************************)
(* C9  As claimed: when a GET fails after a page of items has been         *)
(* accumulated in the same run, the items accumulated up to the failure    *)
(* are kept and are written to the output workbook -- in notsold, common,  *)
(* population_report and real_estate_report.                               *)
(***************************************************************************)
KeptAndWritten ==
    \A i \in Failed :
        ReceivedBefore(i) # {} =>
            /\ ReceivedBefore(i) \subseteq Held(AllBlocks)
            /\ exit.done => (workbook.state = "saved" /\ ReceivedBefore(i) \subseteq Written)

C9_Original == Paginated => KeptAndWritten

(***************************************************************************)
(* C9  As amended: in real_estate_report.collect_all a failed GET is       *)
(* swallowed, and the rows accumulated up to the failure are kept and are  *)
(* written to the raw sheets.  In notsold, common.fetch_json_list and the  *)
(* population_report loop the failure raises: the process ends non-zero,   *)
(* and no workbook is written.                                             *)
(***************************************************************************)
C9_KeptOnlyWhereSwallowed ==
    /\ script = "real_estate_report" => KeptAndWritten
    /\ script \in {"notsold", "common", "population_report"} =>
           (Failed # {} => (Fatal /\ exit.code = 1 /\ exit.exc = ExcOf(resps[Len(resps)].kind)))

\* real_estate_report wrote two pages fetched before a GET failed.
C9_Witness ==
    /\ script = "real_estate_report" /\ exit.done
    /\ \E i \in Failed : Cardinality(ReceivedBefore(i)) = 2 /\ ReceivedBefore(i) \subseteq Written

(***************************************************************************)
(* C10  A failed or malformed page ends the collection of its sub-query    *)
(* only.  In collect_all a failure on a page of month m stops the paging   *)
(* of m, keeps the rows gathered before, and the next month is requested   *)
(* from page 1; in the label loop of monthly_price_index a lookup, request *)
(* or parse failure skips that label and every later label is attempted.   *)
(* The run is not ended by such a failure.                                 *)
(***************************************************************************)
\* The run has left its collection loop having gone through every sub-query.
LoopDone == pc \in {"write", "exit"} /\ queries # <<>>

C10_FailureEndsSubQueryOnly ==
    /\ script = "real_estate_report" =>
           /\ \A i \in Failed :
                  /\ i < Len(requests) =>
                         (requests[i + 1].sub = requests[i].sub + 1 /\ requests[i + 1].pageNo = 1)
                  /\ i = Len(requests) =>
                         (pc = "fetch" => (sub = requests[i].sub + 1 /\ page = 1))
                  /\ ReceivedBefore(i) \subseteq Held(AllBlocks)
           /\ LoopDone =>
                  /\ \A s \in 1..Len(queries) : s \in Asked /\ ReqsOf(s)[1].pageNo = 1
                  /\ exit.done => workbook.state = "saved"
    /\ script = "monthly_price_index" =>
           /\ \A i \in Failed : BlocksOf(requests[i].sub) = <<>>
           /\ LoopDone =>
                  /\ lookups = Len(queries)
                  /\ \A j \in 1..Len(queries) :
                         Len(ReqsOf(j)) = IF InTable(queries[j].label) THEN 1 ELSE 0
                  /\ Held(items) = {<<requests[i].sub, requests[i].pageNo>> :
                                       i \in {i \in 1..Len(resps) : resps[i].n > 0}}
                  /\ (exit.done /\ items # <<>>) => (exit.code = 0 /\ workbook.state = "saved")

\* Page 2 of a month failed after page 1 had rows; the next month of the
\* same endpoint was then requested from page 1 and the rows were written.
C10_Witness ==
    /\ script = "real_estate_report" /\ exit.done
    /\ \E i \in Failed :
           /\ requests[i].pageNo = 2 /\ requests[i].sub = 1
           /\ requests[i + 1].sub = 2 /\ queries[2].url = queries[1].url
           /\ <<1, 1>> \in Written

(***************************************************************************)
(* C11  In population_report.fetch_page, notsold.fetch_form_list and       *)
(* common.fetch_json_list, a page whose result is a single bare object is  *)
(* turned into a one-element list before it is added: the accumulator      *)
(* grows by exactly one record for that page, and every element of the     *)
(* accumulator is a record, never a field name.                            *)
(***************************************************************************)
C11_DictCoerced ==
    script \in {"population_report", "notsold", "common"} =>
        /\ \A i \in 1..Len(resps) :
               resps[i].kind = "dict" =>
                   \E j \in 1..Len(AllBlocks) :
                       AllBlocks[j] = Block(requests[i].sub, requests[i].pageNo, 1, "record")
        /\ \A j \in 1..Len(AllBlocks) : AllBlocks[j].kind = "record"

(***************************************************************************)
(* C12  As claimed: in notsold.main, population_report, real_estate_report *)
(* and monthly_price_index the stages run strictly in the order Resolver,  *)
(* Fetcher, Normalizer, Writer: once the first GET has been issued no      *)
(* lookup against the reference table takes place, and once the writer has *)
(* been opened no GET is issued.                                           *)
(***************************************************************************)
Staged == script \in {"notsold", "population_report", "real_estate_report",
                      "monthly_price_index"}

NoRequestOnceWritten == workbook.state # "none" => requests' = requests

C12_Original ==
    [][Staged => /\ requests # <<>> => lookups' = lookups
                 /\ NoRequestOnceWritten]_vars

(***************************************************************************)
(* C12  As amended: the writer is opened only after the last GET, and in   *)
(* notsold.main, population_report and real_estate_report every lookup     *)
(* precedes the first GET.  In monthly_price_index the lookup of a label   *)
(* in the reference table is made inside the collection loop: each turn    *)
(* looks up exactly the label it is at and only then issues that label's   *)
(* GET, so lookups and GETs alternate label by label.                      *)
(***************************************************************************)
C12_StagesInOrder ==
    [][Staged =>
          /\ NoRequestOnceWritten
          /\ pc \in {"write", "exit"} => (requests' = requests /\ lookups' = lookups)
          /\ workbook' # workbook => pc = "write"
          /\ (script # "monthly_price_index" /\ requests # <<>>) => lookups' = lookups
          /\ (script # "monthly_price_index" /\ lookups' # lookups) => pc = "start"
          /\ (script = "monthly_price_index" /\ pc = "fetch") =>
                 /\ lookups' = lookups + 1
                 /\ lookups' = sub
                 /\ requests' # requests =>
                        requests' = Append(requests, [sub |-> sub, pageNo |-> 1,
                                                      numOfRows |-> price_pSize])]_vars

\* monthly_price_index looked a label up after its first GET, and wrote.
C12_Witness ==
    /\ script = "monthly_price_index" /\ workbook.state = "saved"
    /\ Len(requests) >= 2 /\ requests[1].sub < lookups
    /\ requests[2].sub > requests[1].sub

(***************************************************************************)
(* C13  As claimed: for a region name of 1 to 3 tokens whose first token   *)
(* is a recognised province, get_region_labels returns a list that starts  *)
(* with the labels for nationwide, capital area and provincial area, holds *)
(* "서울" exactly once and at index 3, holds no label twice, ends with the *)
(* most specific label built from the short province and the city and      *)
(* district tokens, and has length 4 for a bare Seoul input and            *)
(* 4 + number of tokens otherwise.                                         *)
(***************************************************************************)
\* The province token is a key of the alias table, or starts with one.
Recognised(tok) ==
    \E i \in 1..Len(sido_map) : tok = sido_map[i][1] \/ StartsWith(tok, sido_map[i][1])

\* A call of get_region_labels the claim is about has been made.
LabelsCalled ==
    /\ fn = "get_region_labels" /\ ret # Pending
    /\ Len(split(arg)) \in 1..3
    /\ Recognised(split(arg)[1])

\* The most specific label for the tokens, given the short province.
Specific(sido, parts) ==
    IF Len(parts) = 1 THEN sido
    ELSE IF Len(parts) = 2 THEN Join2(sido, parts[2])
    ELSE Join3(sido, parts[2], parts[3])

LabelsShape ==
    LET labels == ret.val
        parts == split(arg)
    IN  /\ ret.exc = "none"
        /\ Len(labels) >= 4
        /\ SubSeq(labels, 1, 3) = <<Jeonguk, Sudogwon, Jibanggwon>>
        /\ {i \in 1..Len(labels) : labels[i] = Seoul} = {4}
        /\ \A i, j \in 1..Len(labels) : labels[i] = labels[j] => i = j
        /\ \E i \in 1..Len(sido_map) :
               labels[Len(labels)] = Specific(sido_map[i][2], parts)

C13_Original ==
    LabelsCalled =>
        /\ LabelsShape
        /\ Len(ret.val) = IF split(arg) \in {<<Teukbyeolsi(Seoul)>>, <<Seoul>>}
                          THEN 4 ELSE 4 + Len(split(arg))

(***************************************************************************)
(* C13  As amended: the same list, whose length is 3 + number of tokens    *)
(* when the province is Seoul (the province label is itself "서울", so     *)
(* nothing is inserted) and 4 + number of tokens for any other province.   *)
(***************************************************************************)
C13_RegionLabels ==
    LabelsCalled =>
        /\ LabelsShape
        /\ Len(ret.val) = IF split(arg)[1] \in {Teukbyeolsi(Seoul), Seoul}
                          THEN 3 + Len(split(arg)) ELSE 4 + Len(split(arg))
        /\ ret.val[Len(ret.val)] =
               Specific(IF split(arg)[1] \in {Teukbyeolsi(Seoul), Seoul} THEN Seoul
                        ELSE ret.val[5], split(arg))

\* The labels of a Seoul district: five of them.
C13_Witness ==
    /\ fn = "get_region_labels"
    /\ arg = JoinTokens(<<Teukbyeolsi(Seoul), DongnamGu>>)
    /\ ret = Returned(<<Jeonguk, Sudogwon, Jibanggwon, Seoul, Join2(Seoul, DongnamGu)>>)

(***************************************************************************)
(* A run as the interpreter executes it: a pagination loop that can take   *)
(* its next turn takes it.                                                 *)
(***************************************************************************)
Turn ==
    \/ notsold_fetch_form_list
    \/ common_fetch_json_list
    \/ population_collect
    \/ real_estate_collect_all

SpecLive == Init /\ [][Next]_vars /\ WF_vars(Turn)

(***************************************************************************)
(* C14  When the server serves finitely many non-empty pages, every        *)
(* pagination loop (common.fetch_json_list, notsold.fetch_form_list, the   *)
(* population_report loop, real_estate_report.collect_all) stops after     *)
(* finitely many GETs: a run in its fetch stage leaves it.  Within a       *)
(* sub-query the page number requested starts at 1 and goes up by exactly  *)
(* 1 per GET.                                                              *)
(***************************************************************************)
PagesInOrder ==
    \A s \in Asked : \A i \in 1..Len(ReqsOf(s)) : ReqsOf(s)[i].pageNo = i

C14_LoopsTerminate ==
    /\ (Paginated /\ pc = "fetch") ~> (pc \in {"write", "exit"})
    /\ [](Paginated => PagesInOrder)

\* collect_all has gone through three pages of one month and on to the
\* next month, and the run has ended.
C14_Witness ==
    /\ script = "real_estate_report" /\ pc = "exit"
    /\ Len(ReqsOf(1)) = 3 /\ ReqsOf(1)[3].pageNo = 3
    /\ 2 \in Asked

(***************************************************************************)
(* C15  Province alias resolution is idempotent: the short form that       *)
(* map_sido returns for an accepted name is itself accepted, and map_sido  *)
(* maps it to itself without raising; the province key that               *)
(* parse_region_name returns is mapped to itself by parse_region_name.     *)
(***************************************************************************)
C15_AliasIdempotent ==
    /\ fn = "map_sido(map_sido)" => ret = Returned(arg)
    /\ fn = "parse_region_name(province_key)" =>
           (ret.exc = "none" /\ ret.val[1] = arg)

(***************************************************************************)
(* C16  In real_estate_report, make_pivot touches the worksheet it formats *)
(* only after that sheet exists, so for every combination of empty and     *)
(* non-empty collected tables the writer block creates the three raw       *)
(* sheets and the three pivot sheets, and the run reaches its success      *)
(* confirmation.                                                           *)
(***************************************************************************)
C16_SixSheets ==
    (script = "real_estate_report" /\ workbook.state # "none") =>
        /\ [i \in 1..Len(workbook.sheets) |-> workbook.sheets[i].name]
               = <<"raw", "raw", "raw", "pivot", "pivot", "pivot">>
        /\ exit = Exit(0, "none")

====
